---------------------------- MODULE Spec2Model ----------------------------
(***************************************************************************)
(* Text-to-speech front ends over a cloud synthesis service:               *)
(*   app.py          the web API (PodcastGenerator, POST /api/generate)    *)
(*   podcast_cli.py  the interactive menu (PodcastCLI)                     *)
(* Python strings are TLA+ strings; TLC evaluates Len, \o and SubSeq on    *)
(* them, so the markup is built and compared character by character.       *)
(***************************************************************************)
EXTENDS Integers, Sequences, FiniteSets, TLC

VARIABLES
    \* ---- markup builder driven on its own (app.py 56-66)
    mkText, mkRate, mkPitch, mkPaused, mkOut, mkOut2, mkStage,
    \* ---- web server (app.py)
    now,        \* wall clock, in seconds of the day
    fs,         \* output folder: file name -> bytes
    wpc,        \* per request thread: position in the handler
    body,       \* per request thread: the JSON body received
    call,       \* per request thread: the synthesize_speech call in flight
    voiceId,    \* per request thread: voice_id of its generate_audio call
    fname,      \* per request thread: filename chosen at app.py 74
    stamp,      \* per request thread: the second the timestamp was taken
    audio,      \* per request thread: bytes returned by the provider
    resp,       \* per request thread: the HTTP response
    doneAt,     \* per request thread: the second generate_audio returned
    \* ---- CLI (podcast_cli.py)
    voices,     \* self.voices, as the provider listed them
    cpc,        \* position of the menu loop
    mode,       \* branch being served: "text", "file", "sample", "list", ""
    lines,      \* text_input_mode: lines typed so far
    text,       \* text handed on to generate_audio
    voice,      \* voice record selected
    engine,     \* engine selected
    path,       \* file_input_mode: the path typed
    outFile,    \* output_file handed to the last generate_audio
    cliCall,    \* the synthesize_speech call of the last generate_audio
    stdout,     \* what the last step printed
    event       \* what the last step met: an error kind, "exit", or ""

mkVars  == <<mkText, mkRate, mkPitch, mkPaused, mkOut, mkOut2, mkStage>>
webVars == <<now, fs, wpc, body, call, voiceId, fname, stamp, audio, resp,
             doneAt>>
cliVars == <<voices, cpc, mode, lines, text, voice, engine, path, outFile,
             cliCall, stdout, event>>
vars    == <<mkVars, webVars, cliVars>>

---------------------------------------------------------------------------
(* Strings *)

Char(s, i) == SubSeq(s, i, i)

\* Characters str.strip() and the regex class \s both take as whitespace.
Whitespace == {" ", "\t", "\n", "\r"}

Min(S) == CHOOSE x \in S : \A y \in S : x <= y
Max(S) == CHOOSE x \in S : \A y \in S : x >= y

\* s repeated n times (Python's s * n).
RECURSIVE Rep(_, _)
Rep(s, n) ==
    IF n <= 0 THEN ""
    ELSE LET h == Rep(s, n \div 2)
         IN  IF n % 2 = 1 THEN h \o h \o s ELSE h \o h

\* str.lstrip(), str.rstrip() and str.strip(): whitespace taken off the
\* ends, one character at a time.
RECURSIVE lstrip(_)
lstrip(s) ==
    IF s # "" /\ Char(s, 1) \in Whitespace
    THEN lstrip(SubSeq(s, 2, Len(s))) ELSE s
RECURSIVE rstrip(_)
rstrip(s) ==
    IF s # "" /\ Char(s, Len(s)) \in Whitespace
    THEN rstrip(SubSeq(s, 1, Len(s) - 1)) ELSE s
strip(s) == rstrip(lstrip(s))

\* str.endswith
endswith(s, suffix) ==
    /\ Len(s) >= Len(suffix)
    /\ SubSeq(s, Len(s) - Len(suffix) + 1, Len(s)) = suffix

\* Number of (possibly overlapping) occurrences of pat in s.
Count(s, pat) ==
    Cardinality({i \in 1..(Len(s) - Len(pat) + 1) :
                    SubSeq(s, i, i + Len(pat) - 1) = pat})

---------------------------------------------------------------------------
(* Markup builder: app.py 56-66 *)

Break500 == "<break time=\"500ms\"/>"
Break300 == "<break time=\"300ms\"/>"
SentenceEnd == {".", "!", "?"}
Comma == {","}

\* As re_sub, the space put before the tag instead of after it.
RECURSIVE re_sub_space_first(_, _, _)
re_sub_space_first(chars, tag, s) ==
    LET starts == {i \in 1..(Len(s) - 1) :
                      /\ Char(s, i) \in chars
                      /\ Char(s, i + 1) \in Whitespace}
    IN  IF starts = {} THEN s
        ELSE LET i    == Min(starts)
                 rest == {k \in (i + 1)..Len(s) : Char(s, k) \notin Whitespace}
                 j    == IF rest = {} THEN Len(s) + 1 ELSE Min(rest)
             IN  SubSeq(s, 1, i) \o " " \o tag
                    \o re_sub_space_first(chars, tag, SubSeq(s, j, Len(s)))

\* re.sub(r'(<one of chars>)\s+', r'\1' + tag + ' ', s): matches are found
\* left to right and do not overlap; each is the character and the whole
\* run of whitespace after it, and is replaced by the character, the tag and
\* one space.
RECURSIVE re_sub(_, _, _)
re_sub(chars, tag, s) ==
    LET starts == {i \in 1..(Len(s) - 1) :
                      /\ Char(s, i) \in chars
                      /\ Char(s, i + 1) \in Whitespace}
    IN  IF starts = {} THEN s
        ELSE LET i    == Min(starts)
                 rest == {k \in (i + 1)..Len(s) : Char(s, k) \notin Whitespace}
                 j    == IF rest = {} THEN Len(s) + 1 ELSE Min(rest)
             IN  SubSeq(s, 1, i) \o tag \o " "
                    \o re_sub(chars, tag, SubSeq(s, j, Len(s)))

\* As add_ssml_pauses, the question mark left out of the character class.
add_ssml_pauses_no_question(s) ==
    re_sub(Comma, Break300, re_sub({".", "!"}, Break500, s))

add_ssml_pauses(s) ==
    re_sub(Comma, Break300, re_sub(SentenceEnd, Break500, s))

ssml_wrapper(s) == "<speak>" \o s \o "</speak>"

\* As prosody, the two attributes in the other order.
prosody_pitch_first(s, rate, pitch) ==
    "<prosody pitch=\"" \o pitch \o "\" rate=\"" \o rate \o "\">" \o s
        \o "</prosody>"

prosody(s, rate, pitch) ==
    "<prosody rate=\"" \o rate \o "\" pitch=\"" \o pitch \o "\">" \o s
        \o "</prosody>"

create_ssml_with_prosody(s, rate, pitch) ==
    ssml_wrapper(prosody(add_ssml_pauses(s), rate, pitch))

Rates == {"x-slow", "slow", "medium", "fast", "x-fast"}


---------------------------------------------------------------------------
(* The markup builder on its own: every text over Alphabet up to MaxLen,    *)
(* and a few longer ones, under every rate and pitch.                       *)

MaxLen == 3
Alphabet == {"a", ".", "?", ",", " ", "\n"}

RECURSIVE TextsUpTo(_)
TextsUpTo(n) ==
    IF n = 0 THEN {""}
    ELSE LET shorter == TextsUpTo(n - 1)
         IN  shorter \cup {t \o c : t \in shorter, c \in Alphabet}

LongerTexts ==
    { "Hello world.",
      "Hello, world. How are you?  Fine!\nBye.",
      "Wait.<break time=\"500ms\"/> One,<break time=\"300ms\"/> two, three. Go" }

MarkupTexts == TextsUpTo(MaxLen) \cup LongerTexts

MkIdle ==
    /\ mkText = "" /\ mkRate = "medium" /\ mkPitch = "medium"
    /\ mkPaused = "" /\ mkOut = "" /\ mkOut2 = "" /\ mkStage = "off"

MkInit ==
    /\ mkText \in MarkupTexts
    /\ mkRate \in Rates
    /\ mkPitch \in Rates
    /\ mkPaused = "" /\ mkOut = "" /\ mkOut2 = ""
    /\ mkStage = "input"

\* add_ssml_pauses(text)
MkPauses ==
    /\ mkStage = "input"
    /\ mkPaused' = add_ssml_pauses(mkText)
    /\ mkStage' = "paused"
    /\ UNCHANGED <<mkText, mkRate, mkPitch, mkOut, mkOut2>>

\* create_ssml_with_prosody(text, rate, pitch)
MkBuild ==
    /\ mkStage = "input"
    /\ mkOut' = create_ssml_with_prosody(mkText, mkRate, mkPitch)
    /\ mkStage' = "built"
    /\ UNCHANGED <<mkText, mkRate, mkPitch, mkPaused, mkOut2>>

\* create_ssml_with_prosody applied to its own output
MkRebuild ==
    /\ mkStage = "built"
    /\ mkOut2' = create_ssml_with_prosody(mkOut, mkRate, mkPitch)
    /\ mkStage' = "rebuilt"
    /\ UNCHANGED <<mkText, mkRate, mkPitch, mkPaused, mkOut>>

---------------------------------------------------------------------------
(* Web server: app.py *)

NumReq   == 2      \* request threads the server runs at once
MaxClock == 1      \* seconds the clock may advance
MaxAudio == 1      \* longest audio buffer the provider returns, in bytes

Requests == 1..NumReq

NeuralLimit   == 3000
StandardLimit == 6000

\* ---- JSON bodies of POST /api/generate.  keys: the keys present; a key
\* that is absent holds its filler value and is read through get().
JStr(s) == [type |-> "string", str |-> s]
JNull   == [type |-> "null", str |-> ""]

AllKeys == {"text", "voice", "engine", "useSSML", "rate", "pitch"}

Body(keys, txt, v, e, ssml, r, p) ==
    [keys |-> keys, text |-> txt, voice |-> v, engine |-> e, useSSML |-> ssml,
     rate |-> r, pitch |-> p]

\* dict.get(key, default)
get(b, key, default) == IF key \in b.keys THEN b[key] ELSE default

HelloWorld == "Hello world."

WebTexts ==
    { "", " \n ", HelloWorld, " Hi, all. Bye! ",
      Rep("a", NeuralLimit), Rep("a", NeuralLimit + 1),
      Rep("a", NeuralLimit) \o " ",
      Rep("a", StandardLimit), Rep("a", StandardLimit + 1),
      "\n" \o Rep("a", StandardLimit) }

\* Bodies the client under study sends.
WebBodies ==
    \* a short text, with and without markup, for either engine
    { Body({"text", "engine", "useSSML"}, JStr(t), "", e, ssml, "", "") :
        t \in {"", " \n ", HelloWorld, " Hi, all. Bye! "},
        e \in {"neural", "standard"}, ssml \in BOOLEAN }
    \cup
    \* texts at the limits
    { Body({"text", "engine"}, JStr(t), "", e, FALSE, "", "") :
        t \in WebTexts, e \in {"neural", "standard"} }
    \cup
    \* the end-to-end scenario
    { Body({"text", "voice", "engine", "useSSML"}, JStr(HelloWorld), "Joanna",
           "neural", TRUE, "", "") }
    \cup
    { Body(AllKeys, JStr(" Hi, all. Bye! "), "Matthew", "standard", TRUE,
           "fast", "x-slow"),
      Body({"text", "useSSML"}, JStr(Rep("a", NeuralLimit) \o ". b"), "", "",
           TRUE, "", ""),
      Body({}, JStr(""), "", "", FALSE, "", ""),            \* {}
      Body({"text"}, JNull, "", "", FALSE, "", ""),         \* {"text": null}
      Body({"text"}, JStr(HelloWorld), "", "", FALSE, "", "") }

\* The body the other clients send meanwhile.
LoadBodies == { Body({"text"}, JStr("Hi."), "", "", FALSE, "", "") }

BodiesFor(r) == IF r = 1 THEN WebBodies ELSE LoadBodies

\* ---- responses
NoCall == [Text |-> "", TextType |-> "", VoiceId |-> "", Engine |-> ""]
NoResp == [status |-> 0, success |-> FALSE, filename |-> "", size |-> 0,
           downloadUrl |-> "", error |-> ""]
NoBody == Body({}, JStr(""), "", "", FALSE, "", "")

Failure(status, msg) ==
    [status |-> status, success |-> FALSE, filename |-> "", size |-> 0,
     downloadUrl |-> "", error |-> msg]

Success(name, size) ==
    [status |-> 200, success |-> TRUE, filename |-> name, size |-> size,
     downloadUrl |-> "/download/" \o name, error |-> ""]

ProviderError == "An error occurred (ServiceFailureException) when calling the SynthesizeSpeech operation"
NoneStripError == "'NoneType' object has no attribute 'strip'"
PermissionError(p) == "[Errno 13] Permission denied: '" \o p \o "'"

\* ---- datetime.now().strftime('%Y%m%d_%H%M%S'); the clock starts two
\* seconds before a minute turns.
ClockStart == 12 * 3600 + 59 * 60 + 58
Digit(d) == Char("0123456789", d + 1)
TwoDigits(n) == Digit((n \div 10) % 10) \o Digit(n % 10)
strftime(t) ==
    LET sec == ClockStart + t
    IN  "20240115_" \o TwoDigits((sec \div 3600) % 24)
            \o TwoDigits((sec \div 60) % 60) \o TwoDigits(sec % 60)

\* As Filename, the voice left out of the name.
Filename_without_voice(voice_id, t) == "podcast_" \o strftime(t) \o ".mp3"

\* app.py 73-74
Filename(voice_id, t) == "podcast_" \o voice_id \o "_" \o strftime(t) \o ".mp3"

\* app.py 75
output_path(name) == "output/" \o name

\* As max_chars, the standard engine's limit for every engine.
max_chars_same_for_all(eng) == StandardLimit

\* app.py 144
max_chars(eng) == IF eng = "neural" THEN NeuralLimit ELSE StandardLimit

TooLong(limit, eng) ==
    "Text too long. Maximum " \o ToString(limit) \o " characters for "
        \o eng \o " engine."

\* The bytes the provider returns to request r: n bytes, tagged by r.
AudioOf(r, n) == Rep(Char("ABCDEFGH", r), n)

\* f.write(data) on a handle opened at offset 0: data over the head of the
\* file, whatever lay beyond it kept.
WriteAtStart(old, data) ==
    IF Len(old) > Len(data) THEN data \o SubSeq(old, Len(data) + 1, Len(old))
    ELSE data

WebIdle ==
    /\ now = 0 /\ fs = << >>
    /\ wpc = [r \in Requests |-> "off"]
    /\ body = [r \in Requests |-> NoBody]
    /\ call = [r \in Requests |-> NoCall]
    /\ voiceId = [r \in Requests |-> ""]
    /\ fname = [r \in Requests |-> ""]
    /\ stamp = [r \in Requests |-> 0]
    /\ audio = [r \in Requests |-> ""]
    /\ resp = [r \in Requests |-> NoResp]
    /\ doneAt = [r \in Requests |-> 0]

InitWeb ==
    /\ now = 0 /\ fs = << >>
    /\ wpc = [r \in Requests |-> "idle"]
    /\ body = [r \in Requests |-> NoBody]
    /\ call = [r \in Requests |-> NoCall]
    /\ voiceId = [r \in Requests |-> ""]
    /\ fname = [r \in Requests |-> ""]
    /\ stamp = [r \in Requests |-> 0]
    /\ audio = [r \in Requests |-> ""]
    /\ resp = [r \in Requests |-> NoResp]
    /\ doneAt = [r \in Requests |-> 0]

\* The wall clock passes a second.
Tick ==
    /\ \E r \in Requests : wpc[r] # "off"
    /\ now < MaxClock
    /\ now' = now + 1
    /\ UNCHANGED <<fs, wpc, body, call, voiceId, fname, stamp, audio, resp, doneAt>>

\* A client's POST /api/generate reaches thread r.
Receive(r, b) ==
    /\ wpc[r] = "idle"
    /\ wpc' = [wpc EXCEPT ![r] = "recv"]
    /\ body' = [body EXCEPT ![r] = b]
    /\ UNCHANGED <<now, fs, call, voiceId, fname, stamp, audio, resp, doneAt>>

\* The handler answers without having called the provider (app.py 141, 146,
\* 165).
Reject(r, response) ==
    /\ wpc' = [wpc EXCEPT ![r] = "done"]
    /\ resp' = [resp EXCEPT ![r] = response]
    /\ body' = [body EXCEPT ![r] = NoBody]
    /\ UNCHANGED <<now, fs, call, voiceId, fname, stamp, audio, doneAt>>

\* generate_audio raised and returned the failure; the handler answers 500
\* (app.py 107-111, 162).  Its locals are gone.
Fail(r, msg) ==
    /\ wpc' = [wpc EXCEPT ![r] = "done"]
    /\ resp' = [resp EXCEPT ![r] = Failure(500, msg)]
    /\ call' = [call EXCEPT ![r] = NoCall]
    /\ voiceId' = [voiceId EXCEPT ![r] = ""]
    /\ fname' = [fname EXCEPT ![r] = ""]
    /\ stamp' = [stamp EXCEPT ![r] = 0]
    /\ audio' = [audio EXCEPT ![r] = ""]
    /\ UNCHANGED <<now, fs, body, doneAt>>

\* generate_podcast (app.py 130-152) and generate_audio up to the provider
\* call it makes (app.py 71-92).
generate_podcast(r) ==
    LET data     == body[r]
        voice_id == get(data, "voice", "Joanna")
        eng      == get(data, "engine", "neural")
        use_ssml == get(data, "useSSML", FALSE)
        rate     == get(data, "rate", "medium")
        pitch    == get(data, "pitch", "medium")
        raw      == get(data, "text", JStr(""))
        txt      == strip(raw.str)
        limit    == max_chars(eng)
        name     == Filename(voice_id, now)
    IN
    /\ wpc[r] = "recv"
    /\ IF raw.type # "string"
       THEN \* None.strip() raises; the handler's own except answers 500
            Reject(r, Failure(500, NoneStripError))
       ELSE IF txt = ""
       THEN Reject(r, Failure(400, "No text provided"))
       ELSE IF Len(txt) > limit
       THEN Reject(r, Failure(400, TooLong(limit, eng)))
       ELSE /\ wpc' = [wpc EXCEPT ![r] = "synth"]
            /\ stamp' = [stamp EXCEPT ![r] = now]
            /\ voiceId' = [voiceId EXCEPT ![r] = voice_id]
            /\ fname' = [fname EXCEPT ![r] = name]
            /\ call' = [call EXCEPT ![r] =
                  IF use_ssml
                  THEN [Text |-> create_ssml_with_prosody(txt, rate, pitch),
                        TextType |-> "ssml", VoiceId |-> voice_id,
                        Engine |-> eng]
                  ELSE [Text |-> txt, TextType |-> "text",
                        VoiceId |-> voice_id, Engine |-> eng]]
            /\ body' = [body EXCEPT ![r] = NoBody]
            /\ UNCHANGED <<now, fs, audio, resp, doneAt>>

\* synthesize_speech returns an audio stream of n bytes (app.py 79-92).
SynthesisReturns(r, n) ==
    /\ wpc[r] = "synth"
    /\ wpc' = [wpc EXCEPT ![r] = "save"]
    /\ audio' = [audio EXCEPT ![r] = AudioOf(r, n)]
    /\ call' = [call EXCEPT ![r] = NoCall]
    /\ UNCHANGED <<now, fs, body, voiceId, fname, stamp, resp, doneAt>>

\* synthesize_speech raises; generate_audio returns the failure and the
\* handler answers 500 (app.py 107-111, 162).
SynthesisFails(r) ==
    /\ wpc[r] = "synth"
    /\ Fail(r, ProviderError)

\* open(output_path, 'wb'): the file is created or cut to nothing (app.py 95).
OpenFile(r) ==
    /\ wpc[r] = "save"
    /\ wpc' = [wpc EXCEPT ![r] = "opened"]
    /\ fs' = (fname[r] :> "") @@ fs
    /\ UNCHANGED <<now, body, call, voiceId, fname, stamp, audio, resp, doneAt>>

\* open raises (the folder is gone or not writable): app.py 107-111, 162.
OpenFails(r) ==
    /\ wpc[r] = "save"
    /\ Fail(r, PermissionError(output_path(fname[r])))

\* f.write(...) and the close that ends the with block (app.py 96).
WriteFile(r) ==
    /\ wpc[r] = "opened"
    /\ wpc' = [wpc EXCEPT ![r] = "written"]
    /\ fs' = [fs EXCEPT ![fname[r]] = WriteAtStart(@, audio[r])]
    /\ UNCHANGED <<now, body, call, voiceId, fname, stamp, audio, resp, doneAt>>

\* os.path.getsize, generate_audio's return and the handler's answer
\* (app.py 98-105, 154-160).
Finish(r) ==
    /\ wpc[r] = "written"
    /\ wpc' = [wpc EXCEPT ![r] = "done"]
    /\ resp' = [resp EXCEPT ![r] = Success(fname[r], Len(fs[fname[r]]))]
    /\ audio' = [audio EXCEPT ![r] = ""]
    /\ doneAt' = [doneAt EXCEPT ![r] = now]
    /\ UNCHANGED <<now, fs, body, call, voiceId, fname, stamp>>

---------------------------------------------------------------------------
(* Interactive menu: podcast_cli.py.  One step per input() the user        *)
(* answers; what a step prints is in stdout, what it met is in event.       *)

MaxLines == 2      \* lines the user types before END

Lower == "abcdefghijklmnopqrstuvwxyz"
Upper == "ABCDEFGHIJKLMNOPQRSTUVWXYZ"

\* str.upper()
RECURSIVE upper(_)
upper(s) ==
    IF s = "" THEN ""
    ELSE LET c == Char(s, 1)
             at == {i \in 1..26 : Char(Lower, i) = c}
         IN  (IF at = {} THEN c ELSE Char(Upper, Min(at)))
                \o upper(SubSeq(s, 2, Len(s)))

\* ' '.join(lines)
RECURSIVE join(_)
join(ls) ==
    IF ls = << >> THEN ""
    ELSE IF Len(ls) = 1 THEN ls[1]
    ELSE ls[1] \o " " \o join(Tail(ls))

\* int(s): the digits' value, or ValueError.
IsDigits(s) ==
    /\ s # ""
    /\ \A i \in 1..Len(s) : \E d \in 0..9 : Char(s, i) = Digit(d)
RECURSIVE DigitsValue(_)
DigitsValue(s) ==
    IF s = "" THEN 0
    ELSE 10 * DigitsValue(SubSeq(s, 1, Len(s) - 1))
            + (CHOOSE d \in 0..9 : Char(s, Len(s)) = Digit(d))
int(s) ==
    LET t == strip(s)
    IN  IF IsDigits(t) THEN [ok |-> TRUE, val |-> DigitsValue(t)]
        ELSE IF Len(t) > 1 /\ Char(t, 1) = "-" /\ IsDigits(SubSeq(t, 2, Len(t)))
        THEN [ok |-> TRUE, val |-> 0 - DigitsValue(SubSeq(t, 2, Len(t)))]
        ELSE [ok |-> FALSE, val |-> 0]

\* Path(p).stem: the last component without its last suffix.
stem(p) ==
    LET slashes == {i \in 1..Len(p) : Char(p, i) = "/"}
        name    == IF slashes = {} THEN p
                   ELSE SubSeq(p, Max(slashes) + 1, Len(p))
        dots    == {i \in 2..Len(name) : Char(name, i) = "."}
    IN  IF dots = {} THEN name ELSE SubSeq(name, 1, Max(dots) - 1)

\* ---- the provider's catalog (describe_voices), in the order it lists it
Voice(n, lang, engines) ==
    [Name |-> n, LanguageCode |-> lang, SupportedEngines |-> engines]
NoVoice == Voice("", "", {})

Catalog ==
    << Voice("Joanna", "en-US", {"neural", "standard"}),
       Voice("Raveena", "en-IN", {"standard"}),
       Voice("Kevin", "en-US", {"neural"}),
       Voice("Alba", "es-ES", {"long-form"}),
       Voice("Matthew", "en-US", {"neural", "standard"}) >>

\* load_voices (podcast_cli.py 19-34): the voices grouped by language, the
\* languages in the order they first appear; {} when the call fails.
RECURSIVE group(_, _)
group(listed, acc) ==
    IF listed = << >> THEN acc
    ELSE LET v  == Head(listed)
             at == {i \in 1..Len(acc) : acc[i].lang = v.LanguageCode}
         IN  group(Tail(listed),
                   IF at = {}
                   THEN Append(acc, [lang |-> v.LanguageCode, list |-> <<v>>])
                   ELSE [acc EXCEPT ![Min(at)].list = Append(@, v)])
load_voices(ok) == IF ok THEN group(Catalog, << >>) ELSE << >>

\* for voices in self.voices.values(): all_voices.extend(voices)
RECURSIVE all_voices(_)
all_voices(vs) ==
    IF vs = << >> THEN << >> ELSE Head(vs).list \o all_voices(Tail(vs))

popular == <<"Joanna", "Matthew", "Amy", "Brian", "Emma", "Justin">>

\* podcast_cli.py 158-161: the first voice of that name, or None.
find_voice(vs, name) ==
    LET all == all_voices(vs)
        at  == {i \in 1..Len(all) : all[i].Name = name}
    IN  IF at = {} THEN NoVoice ELSE all[Min(at)]

\* ---- files the user can name
File(readable, content) == [readable |-> readable, content |-> content]
CliFiles ==
    [p \in {"notes.txt", "empty.txt", "blank.txt", "max.txt", "long.txt",
            "huge.txt", "docs"} |->
        CASE p = "notes.txt" -> File(TRUE, "Hello, world. Bye")
          [] p = "empty.txt" -> File(TRUE, "")
          [] p = "blank.txt" -> File(TRUE, " \n")
          [] p = "max.txt"   -> File(TRUE, Rep("a", NeuralLimit))
          [] p = "long.txt"  -> File(TRUE, Rep("a", NeuralLimit + 1))
          [] p = "huge.txt"  -> File(TRUE, Rep("a", StandardLimit + 1))
          [] OTHER           -> File(FALSE, "")]

\* ---- what the user may type
MenuInputs   == {"1", "2", "3", "4", "5", "6", " 1 ", "9", ""}
LineInputs   == {"Hello, world.", "  ", "END", " end "}
NumberInputs == {"1", "2", "3", "4", "5", "7", "8", "0", "x", ""}
PathInputs   == DOMAIN CliFiles \cup {"missing.txt", " notes.txt "}
NameInputs   == {"", "out", "my.mp3"}
SampleInputs == {"", "Hi."}
Outcomes     == {"ok", "provider", "write"}

Prompts == {"MainMenu", "TextLines", "FilePath", "SelectVoice", "SelectAll",
            "SelectEngine", "OutputName", "ListVoices", "SampleText"}

\* podcast_cli.py 222
cli_max_chars(eng) == IF eng = "neural" THEN NeuralLimit ELSE StandardLimit

\* generate_audio (podcast_cli.py 211-244): the call it makes, what it
\* prints and what it met, for an outcome of the provider call and the write.
cli_generate_audio(txt, output_file, voice_id, eng, outcome) ==
    LET limit == cli_max_chars(eng)
        made  == [Text |-> txt, TextType |-> "text", VoiceId |-> voice_id,
                  Engine |-> eng]
    IN  IF Len(txt) > limit
        THEN [call |-> NoCall, event |-> "too long",
              out |-> <<"Generating audio...", "Text is too long">>]
        ELSE IF outcome = "provider"
        THEN [call |-> made, event |-> "provider failure",
              out |-> <<"Generating audio...", "Error: " \o ProviderError>>]
        ELSE IF outcome = "write"
        THEN [call |-> made, event |-> "failed write",
              out |-> <<"Generating audio...",
                        "Error: " \o PermissionError(output_file)>>]
        ELSE [call |-> made, event |-> "",
              out |-> <<"Generating audio...", "SUCCESS!">>]

\* select_engine (podcast_cli.py 192-209) for a voice whose engines leave no
\* question to ask.
select_engine_unasked(v) ==
    IF "neural" \in v.SupportedEngines THEN "neural" ELSE "standard"

\* select_engine's answer to the prompt (podcast_cli.py 201-205).
select_engine_asked(inp) ==
    LET shown == IF strip(inp) = "" THEN "1" ELSE strip(inp)
        n     == int(shown)
    IN  IF ~n.ok THEN [engine |-> "neural", event |-> "invalid number"]
        ELSE IF n.val = 1 THEN [engine |-> "neural", event |-> ""]
        ELSE [engine |-> "standard", event |-> ""]

\* As run_except, an exception other than KeyboardInterrupt ending the loop.
run_except_reraises(e) ==
    IF e = "KeyboardInterrupt"
    THEN [pc |-> "Exit", out |-> <<"Goodbye!">>, event |-> "interrupt"]
    ELSE [pc |-> "Exit", out |-> << >>, event |-> "eof"]

\* run's handlers (podcast_cli.py 285-289): where the loop goes and what it
\* prints when a branch raises.
run_except(e) ==
    IF e = "KeyboardInterrupt"
    THEN [pc |-> "Exit", out |-> <<"Goodbye!">>, event |-> "interrupt"]
    ELSE [pc |-> "MainMenu", out |-> <<"Error: " \o e>>, event |-> "eof"]

\* file_input_mode's handler (podcast_cli.py 138-139).
file_except(e) ==
    [pc |-> "MainMenu", out |-> <<"Error reading file: " \o e>>,
     event |-> IF e = "EOF when reading a line" THEN "eof" ELSE "unreadable file"]

CliIdle ==
    /\ voices = << >> /\ cpc = "off" /\ mode = "" /\ lines = << >>
    /\ text = "" /\ voice = NoVoice /\ engine = "" /\ path = "" /\ outFile = ""
    /\ cliCall = NoCall /\ stdout = << >> /\ event = ""

\* PodcastCLI() then run(): the catalog is loaded, or the load fails and is
\* reported, and the menu is shown.
InitCLI ==
    /\ \E ok \in BOOLEAN :
          /\ voices = load_voices(ok)
          /\ stdout = IF ok THEN << >> ELSE <<"Error loading voices: " \o ProviderError>>
          /\ event = IF ok THEN "" ELSE "provider failure"
    /\ cpc = "MainMenu" /\ mode = "" /\ lines = << >>
    /\ text = "" /\ voice = NoVoice /\ engine = "" /\ path = "" /\ outFile = ""
    /\ cliCall = NoCall

\* A step ends at position pc having printed out and met ev.
Goto(pc, out, ev) == cpc' = pc /\ stdout' = out /\ event' = ev

\* run (podcast_cli.py 262-283): the answer to "Select option: ".
Menu(inp) ==
    LET choice == strip(inp)
    IN
    /\ cpc = "MainMenu"
    /\ lines' = << >> /\ text' = "" /\ voice' = NoVoice /\ engine' = ""
    /\ path' = "" /\ outFile' = "" /\ cliCall' = NoCall
    /\ UNCHANGED voices
    /\ CASE choice = "1" -> Goto("TextLines", <<"Enter your text">>, "") /\ mode' = "text"
         [] choice = "2" -> Goto("FilePath", << >>, "") /\ mode' = "file"
         [] choice = "3" -> Goto("ListVoices", <<"Available Languages:">>, "") /\ mode' = "list"
         [] choice = "4" -> Goto("SampleText", << >>, "") /\ mode' = "sample"
         [] choice = "5" -> Goto("MainMenu", <<"SSML features are in podcast_generator_advanced.py">>, "") /\ mode' = ""
         [] choice = "6" -> Goto("Exit", <<"Goodbye!">>, "exit") /\ mode' = ""
         [] OTHER        -> Goto("MainMenu", <<"Invalid option!">>, "invalid option") /\ mode' = ""

\* text_input_mode (podcast_cli.py 72-84): one more line, or END.
TextLine(inp) ==
    /\ cpc = "TextLines"
    /\ UNCHANGED <<voices, mode, voice, engine, path, outFile, cliCall>>
    /\ IF upper(strip(inp)) = "END"
       THEN LET joined == join(lines)
            IN  /\ text' = joined
                /\ lines' = lines
                /\ IF strip(joined) = ""
                   THEN Goto("MainMenu", <<"No text entered!">>, "no text")
                   ELSE Goto("SelectVoice", <<"SELECT VOICE:">>, "")
       ELSE /\ Len(lines) < MaxLines
            /\ lines' = Append(lines, inp)
            /\ text' = text
            /\ Goto("TextLines", << >>, "")

\* file_input_mode (podcast_cli.py 107-117): the answer to "Enter file path: ".
FilePath(inp) ==
    LET filepath == strip(inp)
    IN
    /\ cpc = "FilePath"
    /\ UNCHANGED <<voices, mode, lines, voice, engine, outFile, cliCall>>
    /\ path' = filepath
    /\ IF filepath \notin DOMAIN CliFiles
       THEN /\ Goto("MainMenu", <<"File not found: " \o filepath>>, "file not found")
            /\ text' = text
       ELSE IF ~CliFiles[filepath].readable
       THEN LET h == file_except(PermissionError(filepath))
            IN  Goto(h.pc, h.out, h.event) /\ text' = text
       ELSE /\ text' = CliFiles[filepath].content
            /\ Goto("SelectVoice", <<"Loaded", "SELECT VOICE:">>, "")

\* A voice is chosen: select_engine decides, or asks (podcast_cli.py 194-209).
Selected(v) ==
    /\ voice' = v
    /\ IF {"neural", "standard"} \subseteq v.SupportedEngines
       THEN Goto("SelectEngine", <<"Engine:">>, "") /\ engine' = engine
       ELSE Goto("OutputName", << >>, "") /\ engine' = select_engine_unasked(v)

\* select_voice returned None: text_input_mode and file_input_mode return.
NoneSelected(out, ev) ==
    /\ Goto("MainMenu", out, ev)
    /\ UNCHANGED <<voice, engine>>

\* select_voice (podcast_cli.py 153-169): the answer to "Your choice: ".
SelectVoice(inp) ==
    LET n == int(inp)
    IN
    /\ cpc = "SelectVoice"
    /\ UNCHANGED <<voices, mode, lines, text, path, outFile, cliCall>>
    /\ IF ~n.ok THEN NoneSelected(<<"Please enter a number!">>, "invalid number")
       ELSE IF 1 <= n.val /\ n.val <= Len(popular)
       THEN LET v == find_voice(voices, popular[n.val])
            IN  IF v = NoVoice THEN NoneSelected(<< >>, "no voice")
                ELSE Selected(v)
       ELSE IF n.val = Len(popular) + 1
       THEN /\ Goto("SelectAll", <<"All Available Voices:">>, "")
            /\ UNCHANGED <<voice, engine>>
       ELSE NoneSelected(<<"Invalid choice!">>, "invalid option")

\* select_from_all_voices (podcast_cli.py 181-190).
SelectAll(inp) ==
    LET n   == int(inp)
        all == all_voices(voices)
    IN
    /\ cpc = "SelectAll"
    /\ UNCHANGED <<voices, mode, lines, text, path, outFile, cliCall>>
    /\ IF ~n.ok THEN NoneSelected(<<"Please enter a number!">>, "invalid number")
       ELSE IF 1 <= n.val /\ n.val <= Len(all) THEN Selected(all[n.val])
       ELSE NoneSelected(<<"Invalid choice!">>, "invalid option")

\* select_engine (podcast_cli.py 201-205): the answer to "Your choice (default: 1): ".
SelectEngine(inp) ==
    LET chosen == select_engine_asked(inp)
    IN
    /\ cpc = "SelectEngine"
    /\ UNCHANGED <<voices, mode, lines, text, voice, path, outFile, cliCall>>
    /\ engine' = chosen.engine
    /\ Goto("OutputName", << >>, chosen.event)

\* podcast_cli.py 95-100 and 128-133: the output file's name.
output_file(m, inp, filepath) ==
    LET typed == strip(inp)
    IN  IF m = "text"
        THEN LET named == IF typed = "" THEN "output/podcast.mp3" ELSE typed
             IN  IF endswith(named, ".mp3") THEN named ELSE named \o ".mp3"
        ELSE IF typed # "" THEN typed
             ELSE "output/" \o stem(filepath) \o "_podcast.mp3"

\* The answer to "Output filename", then generate_audio
\* (podcast_cli.py 95-103, 131-136, 211-244).
OutputName(inp, outcome) ==
    LET out_name == output_file(mode, inp, path)
        done     == cli_generate_audio(text, out_name, voice.Name, engine, outcome)
    IN
    /\ cpc = "OutputName"
    /\ UNCHANGED <<voices, mode, lines, text, voice, engine, path>>
    /\ outFile' = out_name
    /\ cliCall' = done.call
    /\ Goto("MainMenu", done.out, done.event)

\* list_voices_menu (podcast_cli.py 57-68).
ListVoices(inp) ==
    LET n == int(inp)
    IN
    /\ cpc = "ListVoices"
    /\ UNCHANGED <<voices, mode, lines, text, voice, engine, path, outFile, cliCall>>
    /\ IF ~n.ok THEN Goto("MainMenu", <<"Please enter a number!">>, "invalid number")
       ELSE IF 1 <= n.val /\ n.val <= Len(voices)
       THEN Goto("MainMenu", <<"Voices for " \o voices[n.val].lang>>, "")
       ELSE Goto("MainMenu", <<"Invalid choice!">>, "invalid option")

voices_to_try == <<"Joanna", "Matthew", "Amy", "Brian">>

FirstError(results) ==
    LET bad == {i \in 1..Len(results) : results[i].event # ""}
    IN  IF bad = {} THEN "" ELSE results[Min(bad)].event

RECURSIVE Printed(_)
Printed(results) ==
    IF results = << >> THEN << >>
    ELSE Head(results).out \o Printed(Tail(results))

\* sample_voices_mode (podcast_cli.py 246-258): one generate_audio per voice,
\* each with its own outcome.
SampleText(inp, outcomes) ==
    LET typed   == strip(inp)
        sample  == IF typed = "" THEN "Hello, this is a sample of my voice. How do you like the way I sound?"
                   ELSE typed
        results == [i \in 1..Len(voices_to_try) |->
                      cli_generate_audio(sample,
                          "output/sample_" \o voices_to_try[i] \o ".mp3",
                          voices_to_try[i], "neural", outcomes[i])]
    IN
    /\ cpc = "SampleText"
    /\ UNCHANGED <<voices, mode, lines, voice, engine, path>>
    /\ text' = sample
    /\ outFile' = "output/sample_" \o voices_to_try[Len(voices_to_try)] \o ".mp3"
    /\ cliCall' = results[Len(results)].call
    /\ Goto("MainMenu", Printed(results), FirstError(results))

\* Ctrl-C at a prompt: KeyboardInterrupt reaches run (podcast_cli.py 285-287).
Interrupt ==
    LET h == run_except("KeyboardInterrupt")
    IN
    /\ cpc \in Prompts
    /\ Goto(h.pc, h.out, h.event)
    /\ UNCHANGED <<voices, mode, lines, text, voice, engine, path, outFile, cliCall>>

\* End of input at a prompt: input() raises EOFError, which the handler of
\* file_input_mode takes inside its try and run's handler anywhere else.
EndOfInput ==
    LET e == "EOF when reading a line"
        h == IF mode = "file" /\ cpc # "FilePath" /\ cpc # "MainMenu"
             THEN file_except(e) ELSE run_except(e)
    IN
    /\ cpc \in Prompts
    /\ Goto(h.pc, h.out, h.event)
    /\ UNCHANGED <<voices, mode, lines, text, voice, engine, path, outFile, cliCall>>

---------------------------------------------------------------------------
(* Specifications *)

\* One of the two programs runs: the web server or the menu.
Init ==
    /\ MkIdle
    /\ \/ InitWeb /\ CliIdle
       \/ InitCLI /\ WebIdle

WebStep(A) == A /\ UNCHANGED <<mkVars, cliVars>>
CliStep(A) == A /\ UNCHANGED <<mkVars, webVars>>

Next ==
    \/ WebStep(Tick)
    \/ \E r \in Requests : \E b \in BodiesFor(r) : WebStep(Receive(r, b))
    \/ \E r \in Requests : WebStep(generate_podcast(r))
    \/ \E r \in Requests, n \in 1..MaxAudio : WebStep(SynthesisReturns(r, n))
    \/ \E r \in Requests : WebStep(SynthesisFails(r))
    \/ \E r \in Requests : WebStep(OpenFile(r))
    \/ \E r \in Requests : WebStep(OpenFails(r))
    \/ \E r \in Requests : WebStep(WriteFile(r))
    \/ \E r \in Requests : WebStep(Finish(r))
    \/ \E inp \in MenuInputs : CliStep(Menu(inp))
    \/ \E inp \in LineInputs : CliStep(TextLine(inp))
    \/ \E inp \in PathInputs : CliStep(FilePath(inp))
    \/ \E inp \in NumberInputs : CliStep(SelectVoice(inp))
    \/ \E inp \in NumberInputs : CliStep(SelectAll(inp))
    \/ \E inp \in NumberInputs : CliStep(SelectEngine(inp))
    \/ \E inp \in NameInputs, outcome \in Outcomes :
          CliStep(OutputName(inp, outcome))
    \/ \E inp \in NumberInputs : CliStep(ListVoices(inp))
    \/ \E inp \in SampleInputs, outcomes \in [1..Len(voices_to_try) -> Outcomes] :
          CliStep(SampleText(inp, outcomes))
    \/ CliStep(Interrupt)
    \/ CliStep(EndOfInput)

Spec == Init /\ [][Next]_vars

InitMarkup == MkInit /\ WebIdle /\ CliIdle

MkStep(A) == A /\ UNCHANGED <<webVars, cliVars>>

NextMarkup ==
    \/ MkStep(MkPauses)
    \/ MkStep(MkBuild)
    \/ MkStep(MkRebuild)

SpecMarkup == InitMarkup /\ [][NextMarkup]_vars

---------------------------------------------------------------------------
(* Properties *)

IsBlank(s) == strip(s) = ""

\* The length limit the specification names for an engine.
LimitFor(eng) == IF eng = "neural" THEN NeuralLimit ELSE StandardLimit

\* Thread r's handler runs generate_podcast in this step.
Handles(r) == wpc[r] = "recv" /\ wpc'[r] # "recv"
\* Thread r's handler answers in this step.
Answers(r) == wpc[r] # "done" /\ wpc'[r] = "done"
\* The menu runs generate_audio for the text or file branch in this step.
Generates ==
    /\ cpc = "OutputName" /\ cpc' = "MainMenu"
    /\ stdout' # << >> /\ Head(stdout') = "Generating audio..."

\* C1: on every path to synthesis (the web handler, the menu's text entry and
\* file entry) an empty or whitespace-only text is rejected, and
\* synthesize_speech is never called with such a text.
C1_BlankTextNeverSynthesized ==
    /\ \A r \in Requests : call[r] # NoCall => ~IsBlank(call[r].Text)
    /\ (mode \in {"text", "file"} /\ cliCall # NoCall) => ~IsBlank(cliCall.Text)

\* C2 as stated: a text that is not blank is accepted iff its length is at
\* most 3000 for neural and 6000 for standard, in the web handler and in the
\* menu's generate_audio, and a rejected request makes no provider call.
C2_AcceptedIffLengthWithinLimit ==
    [][ /\ \A r \in Requests :
              (Handles(r) /\ body[r].text.type = "string"
                          /\ ~IsBlank(get(body[r], "text", JStr("")).str))
              => LET raw == get(body[r], "text", JStr("")).str
                     eng == get(body[r], "engine", "neural")
                 IN  /\ (wpc'[r] = "synth") <=> (Len(raw) <= LimitFor(eng))
                     /\ wpc'[r] # "synth" => call'[r] = NoCall
        /\ Generates =>
              ((cliCall' # NoCall) <=> (Len(text) <= LimitFor(engine))) ]_vars

\* C2 amended: the web handler measures the text after trimming the
\* whitespace at its ends, the menu's generate_audio measures it as given;
\* the text is accepted iff that length is at most 3000 for neural and 6000
\* for standard, and a request rejected as over-length is answered 400 with
\* no provider call made.
C2_AcceptedIffCheckedLengthWithinLimit ==
    [][ /\ \A r \in Requests :
              (Handles(r) /\ body[r].text.type = "string"
                          /\ ~IsBlank(get(body[r], "text", JStr("")).str))
              => LET raw == get(body[r], "text", JStr("")).str
                     eng == get(body[r], "engine", "neural")
                 IN  /\ (wpc'[r] = "synth") <=> (Len(strip(raw)) <= LimitFor(eng))
                     /\ wpc'[r] # "synth" =>
                           /\ call'[r] = NoCall
                           /\ resp'[r].status = 400
                           /\ ~resp'[r].success
        /\ Generates =>
              /\ (cliCall' # NoCall) <=> (Len(text) <= LimitFor(engine))
              /\ cliCall' = NoCall => event' = "too long" ]_vars

\* C2 witness: a neural request whose text is exactly at the limit is on its
\* way to the provider.
C2_Witness ==
    \E r \in Requests :
        /\ wpc[r] = "synth"
        /\ call[r].Engine = "neural"
        /\ call[r].TextType = "text"
        /\ Len(call[r].Text) = NeuralLimit

\* The end-to-end scenario's request.
Scenario ==
    Body({"text", "voice", "engine", "useSSML"}, JStr(HelloWorld), "Joanna",
         "neural", TRUE, "", "")

\* The synthesis call of thread r has returned audio and the thread answers
\* in this step.
AnswersAfterSynthesis(r) ==
    wpc[r] \in {"save", "opened", "written"} /\ wpc'[r] = "done"

\* C3 as stated: the scenario passes to the synthesis call the markup with a
\* 500ms pause after "Hello world.", and once the synthesis call has
\* succeeded the response has success true and a downloadUrl of "/download/"
\* followed by the generated filename.
C3_ScenarioMarkupWithPause ==
    [][ \A r \in Requests :
          /\ (Handles(r) /\ body[r] = Scenario) =>
                /\ wpc'[r] = "synth"
                /\ call'[r].Text =
                      "<speak><prosody rate=\"medium\" pitch=\"medium\">Hello world.<break time=\"500ms\"/> </prosody></speak>"
          /\ AnswersAfterSynthesis(r) =>
                /\ resp'[r].success
                /\ resp'[r].downloadUrl = "/download/" \o fname[r] ]_vars

\* C3 amended: the scenario passes to the synthesis call the markup
\* <speak><prosody rate="medium" pitch="medium">Hello world.</prosody></speak>
\* (no pause: nothing follows the full stop), as an ssml call for Joanna and
\* neural; and when the synthesis call has succeeded and the audio is
\* written, the response is 200 with success true, the generated filename
\* and a downloadUrl of "/download/" followed by it.
C3_ScenarioMarkup ==
    [][ \A r \in Requests :
          /\ (Handles(r) /\ body[r] = Scenario) =>
                /\ wpc'[r] = "synth"
                /\ call'[r] =
                      [Text |-> "<speak><prosody rate=\"medium\" pitch=\"medium\">Hello world.</prosody></speak>",
                       TextType |-> "ssml", VoiceId |-> "Joanna",
                       Engine |-> "neural"]
          /\ (wpc[r] = "written" /\ wpc'[r] = "done") =>
                /\ resp'[r].status = 200
                /\ resp'[r].success
                /\ resp'[r].filename = fname[r]
                /\ resp'[r].downloadUrl = "/download/" \o fname[r] ]_vars

\* C3 witness: the scenario's call is in flight.
C3_Witness ==
    \E r \in Requests :
        /\ wpc[r] = "synth"
        /\ call[r].VoiceId = "Joanna" /\ call[r].Engine = "neural"
        /\ call[r].TextType = "ssml"
        /\ call[r].Text =
              "<speak><prosody rate=\"medium\" pitch=\"medium\">Hello world.</prosody></speak>"

\* Places of s where one of chars is followed by whitespace.
Occurrences(s, chars) ==
    {i \in 1..(Len(s) - 1) : Char(s, i) \in chars /\ Char(s, i + 1) \in Whitespace}

\* Places of s where one of chars is followed at once by tag.
Marked(s, chars, tag) ==
    {i \in 1..(Len(s) - Len(tag)) :
        Char(s, i) \in chars /\ SubSeq(s, i + 1, i + Len(tag)) = tag}

\* C4: the output of add_ssml_pauses holds exactly one 500ms marker right
\* after each '.', '!' or '?' of the text that whitespace follows, exactly
\* one 300ms marker right after each comma that whitespace follows, and no
\* marker that was not in the text anywhere else.
C4_PausesExactlyAtPunctuation ==
    mkStage = "paused" =>
        LET n500 == Cardinality(Occurrences(mkText, SentenceEnd))
            n300 == Cardinality(Occurrences(mkText, Comma))
        IN  /\ Count(mkPaused, Break500) = Count(mkText, Break500) + n500
            /\ Count(mkPaused, Break300) = Count(mkText, Break300) + n300
            /\ Cardinality(Marked(mkPaused, SentenceEnd, Break500))
                  = Cardinality(Marked(mkText, SentenceEnd, Break500)) + n500
            /\ Cardinality(Marked(mkPaused, Comma, Break300))
                  = Cardinality(Marked(mkText, Comma, Break300)) + n300
            /\ Occurrences(mkPaused, SentenceEnd) = {}
            /\ Occurrences(mkPaused, Comma) = {}

\* C4 witness: a text with all four punctuation marks has been marked up.
C4_Witness ==
    /\ mkStage = "paused"
    /\ mkText = "Hello, world. How are you?  Fine!\nBye."
    /\ mkPaused = "Hello,<break time=\"300ms\"/> world.<break time=\"500ms\"/> How are you?<break time=\"500ms\"/> Fine!<break time=\"500ms\"/> Bye."

\* A request that fails validation: text missing, not a string, empty or
\* over-length.
InvalidRequest(b) ==
    LET raw == get(b, "text", JStr(""))
    IN  \/ raw.type # "string"
        \/ IsBlank(raw.str)
        \/ Len(strip(raw.str)) > LimitFor(get(b, "engine", "neural"))

\* C5: every response of POST /api/generate is a success with filename,
\* size and downloadUrl, or a failure with 400 exactly when the request
\* fails validation, or a failure with 500 exactly when the provider call
\* fails.
C5_StatusMatchesCause ==
    [][ \A r \in Requests : Answers(r) =>
          /\ resp'[r].status \in {200, 400, 500}
          /\ resp'[r].status = 200 =>
                (resp'[r].success /\ resp'[r].filename # "" /\ resp'[r].downloadUrl # "")
          /\ resp'[r].status # 200 => (~resp'[r].success /\ resp'[r].error # "")
          /\ (resp'[r].status = 400) <=> (wpc[r] = "recv" /\ InvalidRequest(body[r]))
          /\ (resp'[r].status = 500) <=> (wpc[r] = "synth") ]_vars

\* C6: when the web generate_audio returns success for an audio buffer of N
\* bytes, the size it reports is N and the file at the returned path holds
\* those N bytes as it returns, whatever other requests are in flight.
C6_SizeAndFileMatchAudio ==
    [][ \A r \in Requests :
          (wpc[r] = "written" /\ wpc'[r] = "done" /\ resp'[r].success) =>
              /\ resp'[r].size = Len(audio[r])
              /\ resp'[r].filename \in DOMAIN fs'
              /\ fs'[resp'[r].filename] = audio[r] ]_vars

Named(r) == fname[r] # ""
Completed(r) == wpc[r] = "done" /\ resp[r].success

ListedErrors ==
    {"provider failure", "unreadable file", "failed write", "invalid number",
     "invalid option"}

\* The menu takes a step.
MenuStep == cpc \in Prompts

\* C8 as stated: whenever one of the listed errors occurs in a branch the
\* loop prints a message and is back at the main menu; Exit is reached only
\* by option 6 or a keyboard interrupt.
C8_ErrorsReportedAndLoopGoesOn ==
    [][ MenuStep =>
          /\ event' \in ListedErrors => (stdout' # << >> /\ cpc' = "MainMenu")
          /\ cpc' = "Exit" => event' \in {"exit", "interrupt"} ]_vars

\* C8 amended: whenever one of the listed errors occurs anywhere but at the
\* engine prompt the loop prints a message and is back at the main menu; a
\* non-numeric answer at the engine prompt prints nothing, selects neural
\* and the branch goes on to ask for the output name; Exit is reached only
\* by option 6 or a keyboard interrupt.
C8_ErrorsReportedExceptAtEnginePrompt ==
    [][ MenuStep =>
          /\ (event' \in ListedErrors /\ cpc # "SelectEngine") =>
                (stdout' # << >> /\ cpc' = "MainMenu")
          /\ (event' \in ListedErrors /\ cpc = "SelectEngine") =>
                /\ event' = "invalid number"
                /\ stdout' = << >>
                /\ engine' = "neural"
                /\ cpc' = "OutputName"
          /\ cpc' = "Exit" => event' \in {"exit", "interrupt"} ]_vars

\* C8 witness: the provider call of the text branch failed, the failure was
\* printed and the menu is shown again.
C8_Witness ==
    /\ cpc = "MainMenu"
    /\ mode = "text"
    /\ event = "provider failure"
    /\ cliCall # NoCall
    /\ stdout # << >>

\* C9: create_ssml_with_prosody applied to its own output gives that output
\* wrapped once more in a prosody directive and a root element, which is not
\* the output itself, and adds no pause marker.
C9_NestedWrappingNoNewPauses ==
    mkStage = "rebuilt" =>
        /\ mkOut2 = ssml_wrapper(prosody(mkOut, mkRate, mkPitch))
        /\ mkOut2 # mkOut
        /\ Count(mkOut2, Break500) = Count(mkOut, Break500)
        /\ Count(mkOut2, Break300) = Count(mkOut, Break300)
        /\ Count(mkOut2, "<speak>") = Count(mkOut, "<speak>") + 1
        /\ Count(mkOut2, "<prosody ") = Count(mkOut, "<prosody ") + 1

\* C9 witness: a text with a pause has been wrapped twice.
C9_Witness ==
    /\ mkStage = "rebuilt"
    /\ mkText = ". a"
    /\ mkRate = "x-slow" /\ mkPitch = "fast"
    /\ mkOut2 = "<speak><prosody rate=\"x-slow\" pitch=\"fast\"><speak><prosody rate=\"x-slow\" pitch=\"fast\">.<break time=\"500ms\"/> a</prosody></speak></prosody></speak>"

\* C10: in the menu the engine select_engine returns is one the selected
\* voice supports, so every synthesis call of the text and file branches
\* uses an engine its voice supports.
C10_EngineIsSupported ==
    /\ cpc = "OutputName" => engine \in voice.SupportedEngines
    /\ (mode \in {"text", "file"} /\ cliCall # NoCall) =>
          cliCall.Engine \in voice.SupportedEngines

=============================================================================
